---------------------------- MODULE Spec2Model ----------------------------
(***************************************************************************)
(* Model of the allocation engine, optimize_teacher_allocation and         *)
(* generate_recommendations of src/optimization.py, and of three of its    *)
(* consumers: the UI session and the student grouping of src/app.py and    *)
(* the scenario files of src/data_management.py.                           *)
(*                                                                         *)
(* One call of the engine is one behaviour: Init draws the request         *)
(* (input_data) from bounded sets, and each action is one stage of the     *)
(* function body, in program order.  A Python exception ends the call:     *)
(* err records its type and pc becomes "raised".                           *)
(*                                                                         *)
(* Representation.                                                         *)
(*  - A subject is the integer that is its position in subject_names; the  *)
(*    dictionaries of the request are functions over subjects and iterate  *)
(*    in subject_names order, the order in which the callers insert the    *)
(*    keys (src/app.py:183-185, 1147-1148).                                *)
(*  - Python floats are modelled as exact rationals.  A ratio is a record  *)
(*    [num, den] with den > 0.                                             *)
(*  - Classroom capacities and per-classroom student counts are Python     *)
(*    floats whose values are multiples of 1/(5 * num_classrooms); they    *)
(*    are kept as integers in that unit (Scale units).                     *)
(*  - Sequences are 1-based: classroom index i of the code is i + 1 here.  *)
(***************************************************************************)
EXTENDS Integers, Sequences, FiniteSets, TLC

VARIABLES
    input_data,                     \* the request dictionary (lines 15-25)
    pc,                             \* the stage the call has completed
    err,                            \* "none" or the exception raised
    total_teachers,                 \* the local of line 16, reassigned at 196
    teachers_per_subject,           \* line 28
    ideal_subject_ratios,           \* line 62
    students_per_subject,           \* line 72
    subject_allocation,             \* line 125
    teachers_per_classroom_subject, \* line 155
    students_per_classroom_subject, \* line 183
    classroom_allocation,           \* lines 136, 303
    teacher_allocation,             \* line 124
    overall_ratio,                  \* lines 330-341
    recommendations,                \* line 374
    previous_result,                \* what the caller got from the call before
    page,                           \* st.session_state.page (app.py:40)
    optimization_result,            \* st.session_state.optimization_result
    script,                         \* where the run of the app script is
    student_df,                     \* the student rows given to the grouping
    custom_groups,                  \* its custom_groups argument, 0 for None
    grouping,                       \* what the grouping returned
    files,                          \* the JSON files of the scenarios directory
    clock,                          \* datetime.datetime.now(), in seconds
    latest,                         \* per name, the data of the last save call
    scenarios                       \* what load_scenario returned

vars == <<input_data, pc, err, total_teachers, teachers_per_subject,
          ideal_subject_ratios, students_per_subject, subject_allocation,
          teachers_per_classroom_subject, students_per_classroom_subject,
          classroom_allocation, teacher_allocation, overall_ratio,
          recommendations, previous_result,
          page, optimization_result, script,
          student_df, custom_groups, grouping,
          files, clock, latest, scenarios>>

(* The state of the application around the engine: the UI session, the     *)
(* student grouping and the scenarios directory.                           *)
surroundings == <<page, optimization_result, script,
                  student_df, custom_groups, grouping,
                  files, clock, latest, scenarios>>

(* None of Python.                                                         *)
None == <<>>

(* src/app.py:38-47: a new session is on the input page without a result.  *)
InitSessionState ==
    /\ page = "input"
    /\ optimization_result = None
    /\ script = "render"

(* No student data has been uploaded and nothing has been grouped.         *)
InitNoStudents ==
    /\ student_df = <<>>
    /\ custom_groups = 0
    /\ grouping = None

(* The scenarios directory as ensure_scenarios_dir creates it              *)
(* (src/data_management.py:7-9): no file, nothing saved, nothing loaded.   *)
InitScenariosDir ==
    /\ files = <<>>
    /\ clock = 0
    /\ latest = <<>>
    /\ scenarios = None

InitSurroundings ==
    /\ InitSessionState
    /\ InitNoStudents
    /\ InitScenariosDir

----------------------------------------------------------------------------
(* Bounds of the model.                                                    *)

MaxStudents == 20
MaxTeachers == 4
MaxClassrooms == 4
MaxSubjects == 4
MaxSubjectsSmall == 2
MaxStudentRows == 3
MaxClock == 1

(* The values the request's fields are drawn from.                         *)
StudentChoices == {12, MaxStudents}
TeacherChoices == 1..MaxTeachers
ClassroomChoices == {1, MaxClassrooms}
ClassSizeChoices == {2, 30}
DifficultyChoices == {3, 8}
PercentChoices == {0, 30, 40, 100}
WideDifficultyChoices == {-3, 0, 3, 8, 11, 14}

(* The defaults the input page passes (src/app.py:206-213).                *)
DefaultMaxStudentsPerTeacher == 25
DefaultIdealRatio == 15

(* The values the input page starts with (src/app.py:157-159).             *)
ScenarioStudents == 500
ScenarioTeachers == 50
ScenarioClassrooms == 20

----------------------------------------------------------------------------
(* Arithmetic helpers.                                                     *)

Min(a, b) == IF a <= b THEN a ELSE b
Max(a, b) == IF a >= b THEN a ELSE b

RECURSIVE SumSeq(_)
SumSeq(s) == IF s = <<>> THEN 0 ELSE Head(s) + SumSeq(Tail(s))

RECURSIVE SumOver(_, _)
(* sum(d.values()) of a dictionary d given as a function with keys S.      *)
SumOver(f, S) ==
    IF S = {} THEN 0
    ELSE LET x == CHOOSE y \in S : TRUE IN f[x] + SumOver(f, S \ {x})

(* int(round(n / d)) for d > 0: Python 3 rounds a tie to the even integer. *)
PyRound(n, d) ==
    LET q == n \div d
        r == n % d
    IN  IF 2 * r < d THEN q
        ELSE IF 2 * r > d THEN q + 1
        ELSE IF q % 2 = 0 THEN q ELSE q + 1

(* int(n / d) for d > 0: truncation toward zero.                           *)
PyInt(n, d) == IF n >= 0 THEN n \div d ELSE -((-n) \div d)

----------------------------------------------------------------------------
(* The request.                                                            *)

Subjects == DOMAIN input_data.teacher_distribution

(* The keys of subject_difficulties in dictionary order.                   *)
DifficultyKeys ==
    SelectSeq(input_data.subject_names,
              LAMBDA s : s \in DOMAIN input_data.subject_difficulties)

(* subject_difficulties.get(subject, 5)                                    *)
DifficultyOrDefault(s) ==
    IF s \in DOMAIN input_data.subject_difficulties
    THEN input_data.subject_difficulties[s] ELSE 5

RECURSIVE SortedBy(_, _)
(* The keys sorted by difficulty, ascending if sign = 1 and descending if  *)
(* sign = -1.  Python's sort is stable, also with reverse=True: keys of    *)
(* equal difficulty keep their dictionary order.                           *)
SortedBy(keys, sign) ==
    IF keys = <<>> THEN <<>>
    ELSE LET d == input_data.subject_difficulties
             first == CHOOSE x \in {d[keys[i]] : i \in 1..Len(keys)} :
                         \A i \in 1..Len(keys) : sign * x <= sign * d[keys[i]]
         IN  SelectSeq(keys, LAMBDA k : d[k] = first)
                \o SortedBy(SelectSeq(keys, LAMBDA k : d[k] # first), sign)

(* sorted(subject_difficulties.items(), key=lambda x: x[1])                *)
SortedAscending == SortedBy(DifficultyKeys, 1)

(* sorted(subject_difficulties.items(), key=lambda x: x[1], reverse=True)  *)
SortedDescending == SortedBy(DifficultyKeys, -1)

----------------------------------------------------------------------------
(* Stage 1: teachers per subject (lines 27-58).                            *)

(* int(round((percentage / 100) * total_teachers))                         *)
RoundedShare(percentage) ==
    PyRound(percentage * input_data.total_teachers, 100)

RECURSIVE AddTeachers(_, _, _, _)
(* The loop of lines 41-45 from position k of the sorted subjects.         *)
AddTeachers(tps, order, k, total_allocated) ==
    IF k > Len(order) \/ total_allocated >= input_data.total_teachers
    THEN tps
    ELSE AddTeachers([tps EXCEPT ![order[k]] = @ + 1], order, k + 1,
                     total_allocated + 1)

RECURSIVE RemoveTeachers(_, _, _, _)
(* The loop of lines 53-58.                                                *)
RemoveTeachers(tps, order, k, total_allocated) ==
    IF k > Len(order) \/ total_allocated <= input_data.total_teachers
    THEN tps
    ELSE IF tps[order[k]] > 1
         THEN RemoveTeachers([tps EXCEPT ![order[k]] = @ - 1], order, k + 1,
                             total_allocated - 1)
         ELSE RemoveTeachers(tps, order, k + 1, total_allocated)

TeachersPerSubject ==
    LET rounded == [s \in Subjects |->
                        RoundedShare(input_data.teacher_distribution[s])]
        total_allocated == SumOver(rounded, Subjects)
    IN  IF total_allocated < input_data.total_teachers
        THEN AddTeachers(rounded, SortedDescending, 1, total_allocated)
        ELSE IF total_allocated > input_data.total_teachers
        THEN RemoveTeachers(rounded, SortedAscending, 1, total_allocated)
        ELSE rounded

(* Stage 1 as a variant of the function would run it if line 30 stored    *)
(* the rounded counts in the request's teacher_distribution.               *)
AllocateTeachersInPlace ==
    /\ pc = "start"
    /\ teachers_per_subject' = TeachersPerSubject
    /\ input_data' = [input_data EXCEPT
                        !.teacher_distribution = TeachersPerSubject]
    /\ pc' = "teachers"
    /\ UNCHANGED <<surroundings, previous_result, ideal_subject_ratios, err,
                   total_teachers, students_per_subject, subject_allocation,
                   teachers_per_classroom_subject,
                   students_per_classroom_subject, classroom_allocation,
                   teacher_allocation, overall_ratio, recommendations>>

AllocateTeachers ==
    /\ pc = "start"
    /\ teachers_per_subject' = TeachersPerSubject
    /\ pc' = "teachers"
    /\ UNCHANGED <<surroundings, previous_result, ideal_subject_ratios,
                   input_data, err, total_teachers, students_per_subject,
                   subject_allocation, teachers_per_classroom_subject,
                   students_per_classroom_subject, classroom_allocation,
                   teacher_allocation, overall_ratio, recommendations>>

----------------------------------------------------------------------------
(* Stage 2: students per subject (lines 60-133).                           *)

(* avg_ratio of line 63 as a ratio.                                        *)
AvgRatio ==
    IF input_data.total_teachers > 0
    THEN [num |-> input_data.total_students, den |-> input_data.total_teachers]
    ELSE [num |-> 15, den |-> 1]

(* Line 67 as a variant of the function would compute it if the factor    *)
(* ignored the difficulty.                                                 *)
FlatDemandFactor5(difficulty) == 5

(* Line 67 as a variant of the function would compute it without the      *)
(* clamp.                                                                  *)
UnclampedDemandFactor5(difficulty) == 10 - difficulty

(* difficulty_factor of line 67, in fifths:                                *)
(* max(0.6, min(1.4, (10 - difficulty) / 5)).                              *)
DemandFactor5(difficulty) == Max(3, Min(7, 10 - difficulty))

(* ideal_subject_ratios of lines 62-69: avg_ratio * difficulty_factor for  *)
(* every key of subject_difficulties.                                      *)
IdealSubjectRatios ==
    [s \in DOMAIN input_data.subject_difficulties |->
        [num |-> AvgRatio.num
                    * DemandFactor5(input_data.subject_difficulties[s]),
         den |-> AvgRatio.den * 5]]

(* int(total_students * 0.4), line 80.                                     *)
MaxStudentsForSubject == PyInt(4 * input_data.total_students, 10)

(* int(round(teachers * ideal_subject_ratios[subject])), line 78.          *)
IdealStudents(s, teachers) ==
    PyRound(teachers * AvgRatio.num
                * DemandFactor5(input_data.subject_difficulties[s]),
            AvgRatio.den * 5)

(* The loop of lines 75-86 reads ideal_subject_ratios[subject], which has  *)
(* the keys of subject_difficulties only.                                  *)
DemandKeyError ==
    \E s \in Subjects :
        /\ teachers_per_subject[s] > 0
        /\ s \notin DOMAIN input_data.subject_difficulties

TargetStudents ==
    [s \in Subjects |->
        IF teachers_per_subject[s] > 0
        THEN Min(MaxStudentsForSubject,
                 IdealStudents(s, teachers_per_subject[s]))
        ELSE 0]

RECURSIVE DistributeRemaining(_, _, _, _)
(* The loop of lines 93-104 from position k of the sorted subjects.        *)
DistributeRemaining(sps, order, k, remaining_students) ==
    IF k > Len(order) \/ remaining_students = 0
    THEN sps
    ELSE IF remaining_students > 0
    THEN DistributeRemaining([sps EXCEPT ![order[k]] = @ + 1], order, k + 1,
                             remaining_students - 1)
    ELSE IF sps[order[k]] > 1
    THEN DistributeRemaining([sps EXCEPT ![order[k]] = @ - 1], order, k + 1,
                             remaining_students + 1)
    ELSE DistributeRemaining(sps, order, k + 1, remaining_students)

RECURSIVE BalanceDiff(_, _, _)
(* The loop of lines 112-120 from position k of subject_names.             *)
BalanceDiff(sps, k, diff) ==
    IF k > Len(input_data.subject_names) \/ diff = 0
    THEN sps
    ELSE IF diff > 0
    THEN BalanceDiff([sps EXCEPT ![input_data.subject_names[k]] = @ + 1],
                     k + 1, diff - 1)
    ELSE BalanceDiff([sps EXCEPT ![input_data.subject_names[k]] = @ - 1],
                     k + 1, diff + 1)

StudentsPerSubject ==
    LET target == TargetStudents
        remaining_students ==
            input_data.total_students - SumOver(target, Subjects)
        distributed ==
            DistributeRemaining(target, SortedAscending, 1, remaining_students)
        diff == input_data.total_students - SumOver(distributed, Subjects)
    IN  BalanceDiff(distributed, 1, diff)

(* students / teachers, or 0 without teachers (lines 132, 298).            *)
Ratio(students, teachers) ==
    IF teachers > 0 THEN [num |-> students, den |-> teachers]
    ELSE [num |-> 0, den |-> 1]

(* Lines 128-133.                                                          *)
SubjectAllocation(sps) ==
    [s \in Subjects |->
        [teachers_allocated |-> teachers_per_subject[s],
         students_allocated |-> sps[s],
         ratio |-> Ratio(sps[s], teachers_per_subject[s])]]

EstimateDemand ==
    /\ pc = "teachers"
    /\ ideal_subject_ratios' = IdealSubjectRatios
    /\ IF DemandKeyError
       THEN /\ err' = "KeyError"
            /\ pc' = "raised"
            /\ UNCHANGED <<students_per_subject, subject_allocation>>
       ELSE /\ LET sps == StudentsPerSubject
               IN  /\ students_per_subject' = sps
                   /\ subject_allocation' = SubjectAllocation(sps)
            /\ pc' = "students"
            /\ UNCHANGED err
    /\ UNCHANGED <<surroundings, previous_result,
                   input_data, total_teachers, teachers_per_subject,
                   teachers_per_classroom_subject,
                   students_per_classroom_subject, classroom_allocation,
                   teacher_allocation, overall_ratio, recommendations>>

----------------------------------------------------------------------------
(* Stage 3: teachers per classroom and subject (lines 136-179).            *)

Classrooms == 1..input_data.num_classrooms

(* The unit of classroom capacities and per-classroom student counts:      *)
(* a value v of the code is the integer v * Scale here.                    *)
Scale == 5 * input_data.num_classrooms

(* max_size of line 151, in Scale units:                                   *)
(* min(total_students / num_classrooms * 1.2, max_class_size).             *)
MaxSize ==
    IF input_data.max_class_size > 0
    THEN Min(6 * input_data.total_students, input_data.max_class_size * Scale)
    ELSE 6 * input_data.total_students

(* extra_classrooms of lines 168-171, 1-based.                             *)
ExtraClassrooms ==
    LET n == input_data.num_classrooms
    IN  IF n > 3
        THEN [k \in 1..n |-> IF k <= n - 2 THEN k + 1
                             ELSE IF k = n - 1 THEN 1 ELSE n]
        ELSE [k \in 1..n |-> k]

(* The condition of line 177 for classroom j (index j - 1 of the code):    *)
(* i < extra_teachers and i in extra_classrooms[:extra_teachers].          *)
GetsExtraTeacher(j, extra_teachers) ==
    /\ j - 1 < extra_teachers
    /\ \E k \in 1..extra_teachers : ExtraClassrooms[k] = j

(* The list built for one subject by lines 162-179.                        *)
TeacherCounts(count) ==
    LET base_teachers == count \div input_data.num_classrooms
        extra_teachers == count % input_data.num_classrooms
    IN  [j \in Classrooms |->
            IF GetsExtraTeacher(j, extra_teachers)
            THEN base_teachers + 1 ELSE base_teachers]

(* A subject without teachers gets no key (line 158).                      *)
TeachersPerClassroomSubject ==
    [s \in {x \in Subjects : teachers_per_subject[x] # 0} |->
        TeacherCounts(teachers_per_subject[s])]

SpreadTeachers ==
    /\ pc = "students"
    /\ IF input_data.num_classrooms = 0
       THEN /\ err' = "ZeroDivisionError"
            /\ pc' = "raised"
            /\ UNCHANGED teachers_per_classroom_subject
       ELSE /\ teachers_per_classroom_subject' = TeachersPerClassroomSubject
            /\ pc' = "teacher_spread"
            /\ UNCHANGED err
    /\ UNCHANGED <<surroundings, previous_result, ideal_subject_ratios,
                   input_data, total_teachers, teachers_per_subject,
                   students_per_subject, subject_allocation,
                   students_per_classroom_subject, classroom_allocation,
                   teacher_allocation, overall_ratio, recommendations>>

----------------------------------------------------------------------------
(* Stage 4: students per classroom and subject (lines 183-244).            *)
(* A loop state is [counts, capacities, remaining], all in Scale units.    *)

RECURSIVE ProportionalRound(_, _, _, _, _)
(* The loop of lines 199-212 from classroom i.                             *)
ProportionalRound(st, teacher_counts, teachers, count, i) ==
    IF i > input_data.num_classrooms THEN st
    ELSE LET ideal_count == PyRound(teacher_counts[i] * count, teachers)
             capped == Min(ideal_count, PyInt(st.capacities[i], Scale))
             student_count == Min(capped * Scale, st.remaining)
         IN  ProportionalRound(
                 [counts |-> [st.counts EXCEPT ![i] = student_count],
                  capacities |-> [st.capacities EXCEPT ![i] = @ - student_count],
                  remaining |-> st.remaining - student_count],
                 teacher_counts, teachers, count, i + 1)

RECURSIVE EvenRound(_, _)
(* The loop of lines 225-236 from classroom i.                             *)
EvenRound(st, i) ==
    IF i > input_data.num_classrooms \/ st.remaining <= 0 THEN st
    ELSE LET even_share ==
                 (st.remaining \div Scale)
                     \div (input_data.num_classrooms - (i - 1))
             student_count ==
                 Min(even_share, PyInt(st.capacities[i], Scale)) * Scale
         IN  EvenRound(
                 [counts |-> [st.counts EXCEPT ![i] = student_count],
                  capacities |-> [st.capacities EXCEPT ![i] = @ - student_count],
                  remaining |-> st.remaining - student_count],
                 i + 1)

(* The loops of lines 216-222 and 239-244 as a variant of the function     *)
(* would run them if it placed the remaining students without regard to    *)
(* the capacity left.                                                      *)
SweepOverCapacity(st, i) ==
    IF st.remaining > 0
    THEN [counts |-> [st.counts EXCEPT ![i] = @ + st.remaining],
          capacities |-> [st.capacities EXCEPT ![i] = @ - st.remaining],
          remaining |-> 0]
    ELSE st

RECURSIVE Sweep(_, _)
(* The loops of lines 216-222 and 239-244 from classroom i.                *)
Sweep(st, i) ==
    IF i > input_data.num_classrooms THEN st
    ELSE IF st.capacities[i] > 0 /\ st.remaining > 0
    THEN LET extra == Min(st.capacities[i], st.remaining)
         IN  Sweep([counts |-> [st.counts EXCEPT ![i] = @ + extra],
                    capacities |-> [st.capacities EXCEPT ![i] = @ - extra],
                    remaining |-> st.remaining - extra],
                   i + 1)
    ELSE Sweep(st, i + 1)

(* The condition of line 194.                                              *)
HasTeacherCounts(s) ==
    /\ s \in DOMAIN teachers_per_classroom_subject
    /\ SumSeq(teachers_per_classroom_subject[s]) > 0

(* The body of the loop of line 189 for one subject.                       *)
SpreadSubject(s, capacities) ==
    LET count == students_per_subject[s]
        st0 == [counts |-> [j \in Classrooms |-> 0],
                capacities |-> capacities,
                remaining |-> count * Scale]
    IN  IF HasTeacherCounts(s)
        THEN LET teacher_counts == teachers_per_classroom_subject[s]
                 st1 == ProportionalRound(st0, teacher_counts,
                                          SumSeq(teacher_counts), count, 1)
             IN  IF st1.remaining > 0 THEN Sweep(st1, 1) ELSE st1
        ELSE Sweep(EvenRound(st0, 1), 1)

RECURSIVE SpreadFrom(_, _)
(* The loop of line 189 from position k of the subjects; acc is            *)
(* [spcs, capacities, total_teachers].                                     *)
SpreadFrom(acc, k) ==
    IF k > Len(input_data.subject_names) THEN acc
    ELSE LET s == input_data.subject_names[k]
             st == SpreadSubject(s, acc.capacities)
         IN  SpreadFrom(
                 [spcs |-> [acc.spcs EXCEPT ![s] = st.counts],
                  capacities |-> st.capacities,
                  total_teachers |->
                     IF HasTeacherCounts(s)
                     THEN SumSeq(teachers_per_classroom_subject[s])
                     ELSE acc.total_teachers],
                 k + 1)

StudentSpread ==
    SpreadFrom([spcs |-> [s \in Subjects |-> [j \in Classrooms |-> 0]],
                capacities |-> [j \in Classrooms |-> MaxSize],
                total_teachers |-> total_teachers],
               1)

SpreadStudents ==
    /\ pc = "teacher_spread"
    /\ LET spread == StudentSpread
       IN  /\ students_per_classroom_subject' = spread.spcs
           /\ total_teachers' = spread.total_teachers
    /\ pc' = "student_spread"
    /\ UNCHANGED <<surroundings, previous_result, ideal_subject_ratios,
                   input_data, err, teachers_per_subject,
                   students_per_subject, subject_allocation,
                   teachers_per_classroom_subject, classroom_allocation,
                   teacher_allocation, overall_ratio, recommendations>>

----------------------------------------------------------------------------
(* Stage 5: classroom totals and teacher records (lines 247-303).          *)

(* difficulty_factor of line 280, in tenths:                               *)
(* max(0.7, min(1.3, (10 - difficulty) / 5)).                              *)
AdjustFactor10(difficulty) == Max(7, Min(13, 2 * (10 - difficulty)))

(* students_for_this_teacher of lines 264-277 for teacher t_idx (from 0)   *)
(* of a cell with the given teachers and students (in Scale units).        *)
StudentsForThisTeacher(students, teachers, t_idx) ==
    LET base_students_per_teacher == students \div (Scale * teachers)
        extra_students == students % (Scale * teachers)
    IN  IF t_idx * Scale < extra_students
        THEN base_students_per_teacher + 1
        ELSE base_students_per_teacher

(* Lines 280-287 as a variant of the function would run them without the   *)
(* two tests of lines 284-287.                                             *)
UnclampedAdjustedStudents(students_for_this_teacher, difficulty) ==
    Max(1, PyRound(students_for_this_teacher * AdjustFactor10(difficulty),
                   10))

(* adjusted_students of lines 280-287.                                     *)
AdjustedStudents(students_for_this_teacher, difficulty) ==
    LET adjusted == Max(1, PyRound(students_for_this_teacher
                                       * AdjustFactor10(difficulty), 10))
    IN  IF adjusted > students_for_this_teacher + 2
        THEN students_for_this_teacher + 2
        ELSE IF adjusted < students_for_this_teacher - 2
        THEN students_for_this_teacher - 2
        ELSE adjusted

(* The record appended at lines 289-294.  utilization is the ratio         *)
(* adjusted_students / max_students_per_teacher * 100.                     *)
TeacherRecord(s, j, adjusted_students) ==
    [subject |-> s,
     students_assigned |-> adjusted_students,
     classroom |-> j,
     utilization |->
        IF input_data.max_students_per_teacher > 0
        THEN [num |-> adjusted_students * 100,
              den |-> input_data.max_students_per_teacher]
        ELSE [num |-> 0, den |-> 1]]

(* The subjects the loop of line 250 handles in classroom j (lines 251,    *)
(* 255), in subject_names order.                                           *)
CellSubjects(j) ==
    SelectSeq(input_data.subject_names,
              LAMBDA s : /\ s \in DOMAIN teachers_per_classroom_subject
                         /\ \/ teachers_per_classroom_subject[s][j] > 0
                            \/ students_per_classroom_subject[s][j] > 0)

(* The teacher records of one (classroom, subject) cell (lines 272-294).   *)
CellRecords(s, j) ==
    LET teachers_to_allocate == teachers_per_classroom_subject[s][j]
        students_to_allocate == students_per_classroom_subject[s][j]
    IN  [t \in 1..teachers_to_allocate |->
            TeacherRecord(s, j,
                AdjustedStudents(
                    StudentsForThisTeacher(students_to_allocate,
                                           teachers_to_allocate, t - 1),
                    DifficultyOrDefault(s)))]

RECURSIVE ClassroomRecords(_, _)
(* The teacher records of classroom j from position k of its subjects.     *)
ClassroomRecords(j, k) ==
    IF k > Len(CellSubjects(j)) THEN <<>>
    ELSE CellRecords(CellSubjects(j)[k], j) \o ClassroomRecords(j, k + 1)

RECURSIVE TeacherAllocation(_)
(* The teacher records lines 289-294 append for classrooms j, j + 1, ...,  *)
(* in append order.                                                        *)
TeacherAllocation(j) ==
    IF j > input_data.num_classrooms THEN <<>>
    ELSE ClassroomRecords(j, 1) \o TeacherAllocation(j + 1)

(* The classroom dictionary of lines 136-141, 256-260 and 296-300;         *)
(* students_assigned is in Scale units.                                    *)
Classroom(j) ==
    LET cells == CellSubjects(j)
        teachers_assigned ==
            SumSeq([k \in 1..Len(cells) |->
                        teachers_per_classroom_subject[cells[k]][j]])
        students_assigned ==
            SumSeq([k \in 1..Len(cells) |->
                        students_per_classroom_subject[cells[k]][j]])
    IN  [teachers_assigned |-> teachers_assigned,
         students_assigned |-> students_assigned,
         subjects |-> cells,
         ratio |-> Ratio(students_assigned, Scale * teachers_assigned)]

BuildRecords ==
    /\ pc = "student_spread"
    /\ classroom_allocation' = [j \in Classrooms |-> Classroom(j)]
    /\ teacher_allocation' = teacher_allocation \o TeacherAllocation(1)
    /\ pc' = "records"
    /\ UNCHANGED <<surroundings, previous_result, ideal_subject_ratios,
                   input_data, err, total_teachers, teachers_per_subject,
                   students_per_subject, subject_allocation,
                   teachers_per_classroom_subject,
                   students_per_classroom_subject, overall_ratio,
                   recommendations>>

----------------------------------------------------------------------------
(* Stage 6: the overall ratio (lines 305-341).                             *)

(* difficulty_factor of lines 312-319, in hundredths.                      *)
WeightFactor100(difficulty) ==
    IF difficulty >= 7 THEN 85
    ELSE IF difficulty <= 3 THEN 115
    ELSE 100

WeightedStudents ==
    SumOver([s \in Subjects |-> subject_allocation[s].students_allocated],
            Subjects)

(* weighted_teachers in hundredths.                                        *)
WeightedTeachers100 ==
    SumOver([s \in Subjects |->
                subject_allocation[s].teachers_allocated
                    * WeightFactor100(DifficultyOrDefault(s))],
            Subjects)

(* experience_factor of line 329, in tenths.                               *)
ExperienceFactor10 == IF input_data.prioritize_experience THEN 9 ELSE 10

(* overall_ratio before the correction of lines 338-341.                   *)
BaseOverallRatio ==
    IF WeightedTeachers100 > 0
    THEN [num |-> WeightedStudents * 100 * ExperienceFactor10,
          den |-> WeightedTeachers100 * 10]
    ELSE [num |-> input_data.total_students * 9, den |-> total_teachers * 10]

(* Lines 338-341 as a variant of the function would run them if it        *)
(* returned the ratio of line 330 or 332 as it is.                         *)
NoPullTowardIdeal(overall) == overall

(* Lines 338-341 as a variant of the function would run them if it moved   *)
(* a ratio outside the 20% band to the edge of the band.                   *)
ClampToBand(overall) ==
    LET ideal_ratio == input_data.ideal_ratio
    IN  IF 5 * overall.num > 6 * ideal_ratio * overall.den
        THEN [num |-> 6 * ideal_ratio, den |-> 5]
        ELSE IF 5 * overall.num < 4 * ideal_ratio * overall.den
        THEN [num |-> 4 * ideal_ratio, den |-> 5]
        ELSE overall

(* Lines 338-341: one step toward ideal_ratio outside the 20% band.        *)
PullTowardIdeal(overall) ==
    LET ideal_ratio == input_data.ideal_ratio
    IN  IF 5 * overall.num > 6 * ideal_ratio * overall.den
           \/ 5 * overall.num < 4 * ideal_ratio * overall.den
        THEN [num |-> overall.num + ideal_ratio * overall.den,
              den |-> 2 * overall.den]
        ELSE overall

AggregateRatio ==
    /\ pc = "records"
    /\ IF WeightedTeachers100 <= 0 /\ total_teachers = 0
       THEN /\ err' = "ZeroDivisionError"
            /\ pc' = "raised"
            /\ UNCHANGED overall_ratio
       ELSE /\ overall_ratio' = PullTowardIdeal(BaseOverallRatio)
            /\ pc' = "ratio"
            /\ UNCHANGED err
    /\ UNCHANGED <<surroundings, previous_result, ideal_subject_ratios,
                   input_data, total_teachers, teachers_per_subject,
                   students_per_subject, subject_allocation,
                   teachers_per_classroom_subject,
                   students_per_classroom_subject, classroom_allocation,
                   teacher_allocation, recommendations>>

----------------------------------------------------------------------------
(* Stage 7: generate_recommendations (lines 360-488) and the return.       *)

(* a < b for ratios with positive denominators.                            *)
RatioLess(a, b) == a.num * b.den < b.num * a.den

(* The condition under which lines 396-405 add an item for a subject.      *)
SubjectNeedsAdjustment(s) ==
    LET difficulty == DifficultyOrDefault(s)
        ratio == subject_allocation[s].ratio
    IN  \/ difficulty >= 7 /\ RatioLess(overall_ratio, ratio)
        \/ difficulty <= 3 /\ RatioLess(ratio, overall_ratio)

(* The ratios lines 424-425 would range over in a variant of the function  *)
(* without the filter ratio > 0.                                           *)
UnfilteredClassroomRatios ==
    {classroom_allocation[j].ratio : j \in DOMAIN classroom_allocation}

(* The ratios the generators of lines 424-425 range over.                  *)
PositiveClassroomRatios ==
    {classroom_allocation[j].ratio : 
        j \in {i \in DOMAIN classroom_allocation :
                  classroom_allocation[i].ratio.num > 0}}

(* min() and max() of lines 424-425 raise ValueError on no element.        *)
ClassroomValueError ==
    /\ Len(classroom_allocation) > 1
    /\ PositiveClassroomRatios = {}

MinRatio == CHOOSE r \in PositiveClassroomRatios :
                \A q \in PositiveClassroomRatios : ~RatioLess(q, r)
MaxRatio == CHOOSE r \in PositiveClassroomRatios :
                \A q \in PositiveClassroomRatios : ~RatioLess(r, q)

(* Lines 422 and 427: max_ratio - min_ratio > 3.                           *)
ClassroomsImbalanced ==
    /\ Len(classroom_allocation) > 1
    /\ MaxRatio.num * MinRatio.den - MinRatio.num * MaxRatio.den
            > 3 * MaxRatio.den * MinRatio.den

(* Lines 448-451: avg_utilization < 80, with avg_utilization = 0 for an    *)
(* empty teacher_allocation.                                               *)
UnderUtilized ==
    LET n == Len(teacher_allocation)
        total == SumSeq([k \in 1..n |-> teacher_allocation[k].utilization.num])
    IN  \/ n = 0
        \/ input_data.max_students_per_teacher <= 0
        \/ total < 80 * n * input_data.max_students_per_teacher

(* A recommendation as a variant of the function would build it if it     *)
(* reported its scores as percentages.                                     *)
PercentScores(title, impact_score, ease_score, start, duration) ==
    [title |-> title, impact_score |-> 10 * impact_score,
     ease_score |-> 10 * ease_score,
     timeline |-> [start |-> start, duration |-> duration]]

(* The dictionaries appended at lines 374-486.                             *)
Recommendation(title, impact_score, ease_score, start, duration) ==
    [title |-> title, impact_score |-> impact_score,
     ease_score |-> ease_score,
     timeline |-> [start |-> start, duration |-> duration]]

Recommendations ==
    <<Recommendation("Use the Best Student-Teacher Ratio", 9, 6, 0, 8)>>
    \o (IF \E s \in Subjects : SubjectNeedsAdjustment(s)
        THEN <<Recommendation("Adjust Each Subject Differently", 8, 5, 2, 6)>>
        ELSE <<>>)
    \o (IF ClassroomsImbalanced
        THEN <<Recommendation("Balance Your Classrooms", 7, 3, 1, 4)>>
        ELSE <<>>)
    \o (IF UnderUtilized
        THEN <<Recommendation("Use Teachers More Efficiently", 8, 4, 4, 10)>>
        ELSE <<>>)
    \o <<Recommendation("Plan Staffing Based on Data", 9, 3, 6, 12)>>

GenerateRecommendations ==
    /\ pc = "ratio"
    /\ IF ClassroomValueError
       THEN /\ err' = "ValueError"
            /\ pc' = "raised"
            /\ UNCHANGED recommendations
       ELSE /\ recommendations' = Recommendations
            /\ pc' = "returned"
            /\ UNCHANGED err
    /\ UNCHANGED <<surroundings, previous_result, ideal_subject_ratios,
                   input_data, total_teachers, teachers_per_subject,
                   students_per_subject, subject_allocation,
                   teachers_per_classroom_subject,
                   students_per_classroom_subject, classroom_allocation,
                   teacher_allocation, overall_ratio>>

----------------------------------------------------------------------------
(* The requests and the specification.                                     *)

(* The teacher_distribution dictionaries of n subjects whose percentages   *)
(* sum to total.                                                           *)
DistributionsOf(n, total) ==
    {d \in [1..n -> PercentChoices] : SumOver(d, 1..n) = total}

(* The subject_difficulties dictionaries with an entry for every subject.  *)
DifficultiesOf(n) == [1..n -> DifficultyChoices]

(* Those that lack the entry of one subject.                               *)
IncompleteDifficultiesOf(n) ==
    UNION {[(1..n) \ {s} -> DifficultyChoices] : s \in 1..n}

(* The request dictionary built by the callers (src/app.py:201-214).       *)
Request(students, teachers, classrooms, size, difficulties, distribution) ==
    [total_students |-> students,
     total_teachers |-> teachers,
     num_classrooms |-> classrooms,
     max_students_per_teacher |-> DefaultMaxStudentsPerTeacher,
     ideal_ratio |-> DefaultIdealRatio,
     max_class_size |-> size,
     subject_names |-> [k \in DOMAIN distribution |-> k],
     subject_difficulties |-> difficulties,
     teacher_distribution |-> distribution,
     prioritize_experience |-> TRUE]

(* The locals before the first statement of the function body, in a       *)
(* process that has not called the function before.                        *)
InitLocals ==
    /\ pc = "start"
    /\ err = "none"
    /\ total_teachers = input_data.total_teachers
    /\ teachers_per_subject = <<>>
    /\ ideal_subject_ratios = <<>>
    /\ students_per_subject = <<>>
    /\ subject_allocation = <<>>
    /\ teachers_per_classroom_subject = <<>>
    /\ students_per_classroom_subject = <<>>
    /\ classroom_allocation = <<>>
    /\ teacher_allocation = <<>>
    /\ overall_ratio = [num |-> 0, den |-> 1]
    /\ recommendations = <<>>
    /\ previous_result = <<>>

(* Valid requests: every subject has a difficulty and the percentages sum  *)
(* to 100.                                                                 *)
Init ==
    /\ \E n \in 1..MaxSubjects :
         \E students \in StudentChoices, teachers \in TeacherChoices,
            classrooms \in ClassroomChoices, size \in ClassSizeChoices,
            difficulties \in DifficultiesOf(n),
            distribution \in DistributionsOf(n, 100) :
                input_data = Request(students, teachers, classrooms, size,
                                     difficulties, distribution)
    /\ InitLocals
    /\ InitSurroundings

(* Requests as the engine accepts them from any caller: the percentages    *)
(* may sum to 130 or to 200, and one subject may lack its difficulty.      *)
InitAnyInput ==
    /\ \E n \in 1..MaxSubjects :
         \E students \in StudentChoices, teachers \in TeacherChoices,
            classrooms \in ClassroomChoices, size \in {30},
            difficulties \in DifficultiesOf(n) \cup IncompleteDifficultiesOf(n),
            distribution \in UNION {DistributionsOf(n, total) :
                                        total \in {100, 130, 200}} :
                input_data = Request(students, teachers, classrooms, size,
                                     difficulties, distribution)
    /\ InitLocals
    /\ InitSurroundings

(* Requests with total_teachers = 0 or num_classrooms = 0 among them: the  *)
(* engine checks neither.                                                  *)
InitDegenerate ==
    /\ \E n \in 1..MaxSubjectsSmall :
         \E students \in StudentChoices,
            teachers \in {0} \cup TeacherChoices,
            classrooms \in {0} \cup ClassroomChoices, size \in {30},
            difficulties \in DifficultiesOf(n),
            distribution \in DistributionsOf(n, 100) :
                input_data = Request(students, teachers, classrooms, size,
                                     difficulties, distribution)
    /\ InitLocals
    /\ InitSurroundings

(* Requests whose difficulties may lie outside 1..10: the engine does not  *)
(* check the range.                                                        *)
InitAnyDifficulty ==
    /\ \E n \in 1..MaxSubjectsSmall :
         \E students \in StudentChoices, teachers \in TeacherChoices,
            classrooms \in ClassroomChoices, size \in {30},
            difficulties \in [1..n -> WideDifficultyChoices],
            distribution \in DistributionsOf(n, 100) :
                input_data = Request(students, teachers, classrooms, size,
                                     difficulties, distribution)
    /\ InitLocals
    /\ InitSurroundings

(* The request the input page starts with: 500 students, 50 teachers, 20   *)
(* classrooms and the subjects 1 Math (7), 2 Science (6), 3 History (5),   *)
(* 4 English (4), 5 Art (3) with 20% of the teachers each.  The fields     *)
(* the scenario leaves open are parameters.                                *)
ScenarioRequest(size, ideal_ratio, experience) ==
    [Request(ScenarioStudents, ScenarioTeachers, ScenarioClassrooms, size,
             <<7, 6, 5, 4, 3>>, <<20, 20, 20, 20, 20>>)
        EXCEPT !.ideal_ratio = ideal_ratio,
               !.prioritize_experience = experience]

InitScenario ==
    /\ \E size \in {25, 30, 40}, ideal_ratio \in {10, 15, 20},
          experience \in BOOLEAN :
            input_data = ScenarioRequest(size, ideal_ratio, experience)
    /\ InitLocals
    /\ InitSurroundings

(* Requests without any subject difficulty, with either value of           *)
(* prioritize_experience: the engine does not require the entries.         *)
InitNoDifficulty ==
    /\ \E n \in 1..MaxSubjects :
         \E students \in StudentChoices, teachers \in TeacherChoices,
            classrooms \in ClassroomChoices, size \in {30},
            distribution \in DistributionsOf(n, 100),
            experience \in BOOLEAN :
                input_data =
                    [Request(students, teachers, classrooms, size, <<>>,
                             distribution)
                        EXCEPT !.prioritize_experience = experience]
    /\ InitLocals
    /\ InitSurroundings

(* Requests with two or more classrooms and with either a small or the     *)
(* default max_students_per_teacher.                                       *)
SeveralClassroomChoices == {2, MaxClassrooms - 1}
TeacherLimitChoices == {5, DefaultMaxStudentsPerTeacher}

InitVariedLimits ==
    /\ \E n \in 1..MaxSubjects :
         \E students \in StudentChoices, teachers \in TeacherChoices,
            classrooms \in SeveralClassroomChoices, size \in {30},
            limit \in TeacherLimitChoices,
            difficulties \in DifficultiesOf(n),
            distribution \in DistributionsOf(n, 100) :
                input_data =
                    [Request(students, teachers, classrooms, size,
                             difficulties, distribution)
                        EXCEPT !.max_students_per_teacher = limit]
    /\ InitLocals
    /\ InitSurroundings

(* Requests for a process that calls the engine twice.                     *)
InitTwoCalls ==
    /\ \E n \in 1..MaxSubjects :
         \E students \in StudentChoices, teachers \in TeacherChoices,
            classrooms \in ClassroomChoices, size \in {30},
            difficulties \in DifficultiesOf(n),
            distribution \in DistributionsOf(n, 100) :
                input_data = Request(students, teachers, classrooms, size,
                                     difficulties, distribution)
    /\ InitLocals
    /\ InitSurroundings

(* What the caller gets: the dictionary of lines 352-358, or the           *)
(* exception.                                                              *)
Result ==
    IF pc = "returned"
    THEN [optimal_ratio |-> overall_ratio,
          teacher_allocation |-> teacher_allocation,
          classroom_allocation |-> classroom_allocation,
          subject_allocation |-> subject_allocation,
          recommendations |-> recommendations]
    ELSE [raised |-> err]

(* A second call with the request of the first, as a variant of the        *)
(* function would run it if the list of line 124 were created once and     *)
(* shared by all calls.                                                    *)
CallAgainSharedRecords ==
    /\ pc \in {"returned", "raised"}
    /\ previous_result = <<>>
    /\ previous_result' = Result
    /\ pc' = "start"
    /\ err' = "none"
    /\ total_teachers' = input_data.total_teachers
    /\ teachers_per_subject' = <<>>
    /\ ideal_subject_ratios' = <<>>
    /\ students_per_subject' = <<>>
    /\ subject_allocation' = <<>>
    /\ teachers_per_classroom_subject' = <<>>
    /\ students_per_classroom_subject' = <<>>
    /\ classroom_allocation' = <<>>
    /\ overall_ratio' = [num |-> 0, den |-> 1]
    /\ recommendations' = <<>>
    /\ UNCHANGED <<surroundings, input_data, teacher_allocation>>

(* The caller calls the function a second time with the same request: the  *)
(* call before has ended, and every local of the function body is created  *)
(* anew (lines 15-28, 62, 72, 123-125, 136, 155, 183, 307-308).            *)
CallAgain ==
    /\ pc \in {"returned", "raised"}
    /\ previous_result = <<>>
    /\ previous_result' = Result
    /\ pc' = "start"
    /\ err' = "none"
    /\ total_teachers' = input_data.total_teachers
    /\ teachers_per_subject' = <<>>
    /\ ideal_subject_ratios' = <<>>
    /\ students_per_subject' = <<>>
    /\ subject_allocation' = <<>>
    /\ teachers_per_classroom_subject' = <<>>
    /\ students_per_classroom_subject' = <<>>
    /\ classroom_allocation' = <<>>
    /\ teacher_allocation' = <<>>
    /\ overall_ratio' = [num |-> 0, den |-> 1]
    /\ recommendations' = <<>>
    /\ UNCHANGED <<surroundings, input_data>>

Next ==
    \/ AllocateTeachers
    \/ EstimateDemand
    \/ SpreadTeachers
    \/ SpreadStudents
    \/ BuildRecords
    \/ AggregateRatio
    \/ GenerateRecommendations

Spec == Init /\ [][Next]_vars

SpecAnyInput == InitAnyInput /\ [][Next]_vars

SpecDegenerate == InitDegenerate /\ [][Next]_vars

SpecAnyDifficulty == InitAnyDifficulty /\ [][Next]_vars

SpecScenario == InitScenario /\ [][Next]_vars

SpecNoDifficulty == InitNoDifficulty /\ [][Next]_vars

SpecVariedLimits == InitVariedLimits /\ [][Next]_vars

NextTwoCalls ==
    \/ Next
    \/ CallAgain

SpecTwoCalls == InitTwoCalls /\ [][NextTwoCalls]_vars

----------------------------------------------------------------------------
(* The UI session of src/app.py: the sidebar of main and the pages that    *)
(* run the engine.  Streamlit runs the script once per interaction; script *)
(* is "render" between interactions and "optimizing" while a run of the    *)
(* script is inside optimize_teacher_allocation.                           *)

(* The engine before the session's first run.                              *)
EngineIdle ==
    /\ input_data = <<>>
    /\ pc = "idle"
    /\ err = "none"
    /\ total_teachers = 0
    /\ teachers_per_subject = <<>>
    /\ ideal_subject_ratios = <<>>
    /\ students_per_subject = <<>>
    /\ subject_allocation = <<>>
    /\ teachers_per_classroom_subject = <<>>
    /\ students_per_classroom_subject = <<>>
    /\ classroom_allocation = <<>>
    /\ teacher_allocation = <<>>
    /\ overall_ratio = [num |-> 0, den |-> 1]
    /\ recommendations = <<>>
    /\ previous_result = <<>>

InitSession ==
    /\ EngineIdle
    /\ InitSurroundings

(* The requests the session submits: one subject, with teacher and         *)
(* classroom counts for which the engine returns and for which it raises.  *)
SessionRequests ==
    {Request(12, teachers, classrooms, 30, <<3>>, <<100>>) :
        teachers \in {1, 2}, classrooms \in ClassroomChoices}

(* A sidebar button that is never disabled (lines 67-72, 79-84, 107-108).  *)
Click(target) ==
    /\ script = "render"
    /\ page' = target
    /\ UNCHANGED <<optimization_result, script>>

(* A sidebar button of lines 91, 95 and 103 as a variant of main would     *)
(* handle it without disabled=.                                            *)
ClickAlwaysEnabled(target) ==
    /\ script = "render"
    /\ page' = target
    /\ UNCHANGED <<optimization_result, script>>

(* A sidebar button with disabled=optimization_result is None              *)
(* (lines 91-92, 95-96, 103-104).                                          *)
ClickWithResult(target) ==
    /\ script = "render"
    /\ optimization_result # None
    /\ page' = target
    /\ UNCHANGED <<optimization_result, script>>

SessionOnly ==
    UNCHANGED <<input_data, pc, err, total_teachers, teachers_per_subject,
                ideal_subject_ratios, students_per_subject,
                subject_allocation, teachers_per_classroom_subject,
                students_per_classroom_subject, classroom_allocation,
                teacher_allocation, overall_ratio, recommendations,
                previous_result,
                student_df, custom_groups, grouping,
                files, clock, latest, scenarios>>

ClickManualInput == Click("input") /\ SessionOnly

ClickCsvUpload == Click("csv_upload") /\ SessionOnly

ClickMlAnalysis == Click("ml_analysis") /\ SessionOnly

Click3dVisuals == Click("3d_viz") /\ SessionOnly

ClickResults == ClickWithResult("results") /\ SessionOnly

ClickTips == ClickWithResult("recommendations") /\ SessionOnly

ClickReports == ClickWithResult("reports") /\ SessionOnly

ClickAiHelp == Click("chatbot") /\ SessionOnly

(* src/app.py:506-509: the results page sends the user to the upload page. *)
GoToCsvUpload ==
    /\ script = "render"
    /\ page = "results"
    /\ optimization_result # None
    /\ page' = "csv_upload"
    /\ UNCHANGED <<optimization_result, script>>
    /\ SessionOnly

(* "Run Optimization" on the input page (lines 199-226), and the runs of   *)
(* the upload page (lines 1219, 1301): the script enters the engine with   *)
(* a new request.                                                          *)
RunOptimization ==
    /\ script = "render"
    /\ page \in {"input", "csv_upload"}
    /\ \E request \in SessionRequests :
        /\ input_data' = request
        /\ total_teachers' = request.total_teachers
    /\ pc' = "start"
    /\ err' = "none"
    /\ teachers_per_subject' = <<>>
    /\ ideal_subject_ratios' = <<>>
    /\ students_per_subject' = <<>>
    /\ subject_allocation' = <<>>
    /\ teachers_per_classroom_subject' = <<>>
    /\ students_per_classroom_subject' = <<>>
    /\ classroom_allocation' = <<>>
    /\ teacher_allocation' = <<>>
    /\ overall_ratio' = [num |-> 0, den |-> 1]
    /\ recommendations' = <<>>
    /\ script' = "optimizing"
    /\ UNCHANGED <<page, optimization_result, previous_result,
                   student_df, custom_groups, grouping,
                   files, clock, latest, scenarios>>

(* Lines 227-231 (and 1225-1229, 1307-1313): the engine has returned; the  *)
(* result is stored, then the page becomes 'results'.                      *)
StoreResult ==
    /\ script = "optimizing"
    /\ pc = "returned"
    /\ optimization_result' = <<Result>>
    /\ page' = "results"
    /\ script' = "render"
    /\ SessionOnly

(* The engine has raised: the exception ends the run of the script before  *)
(* line 227 (the upload page reports it, lines 1315-1318).                 *)
OptimizationFailed ==
    /\ script = "optimizing"
    /\ pc = "raised"
    /\ script' = "render"
    /\ UNCHANGED <<page, optimization_result>>
    /\ SessionOnly

NextSession ==
    \/ Next
    \/ ClickManualInput
    \/ ClickCsvUpload
    \/ ClickMlAnalysis
    \/ Click3dVisuals
    \/ ClickResults
    \/ ClickTips
    \/ ClickReports
    \/ ClickAiHelp
    \/ GoToCsvUpload
    \/ RunOptimization
    \/ StoreResult
    \/ OptimizationFailed

SpecSession == InitSession /\ [][NextSession]_vars

----------------------------------------------------------------------------
(* The student grouping, add_student_skill_based_assignments of            *)
(* src/app.py.  student_df is the sequence of its rows, a row the sequence *)
(* of the student's scores in the skill columns; a student's id is the     *)
(* index of the row.  Of the returned dictionary the model keeps the       *)
(* groups (id, level, size), the assignments and num_skill_groups.         *)

SkillChoices == {1, 3}
NumSkillColumns == 2

(* The group count of line 1350 without classroom data.                    *)
DefaultGroups == 3

NumStudents == Len(student_df)

(* Lines 1342-1350.                                                        *)
NumGroups ==
    IF custom_groups > 0
    THEN Min(custom_groups, NumStudents)
    ELSE IF optimization_result # None
         THEN Len(optimization_result[1].classroom_allocation)
         ELSE DefaultGroups

(* Lines 1356-1362: the mean of the skill columns, scaled to 0..10 over    *)
(* the students, or 5 when all means are equal.                            *)
CompositeSkill(student) ==
    LET total(i) == SumSeq(student_df[i])
        max_skill == CHOOSE m \in {total(i) : i \in 1..NumStudents} :
                        \A i \in 1..NumStudents : total(i) <= m
        min_skill == CHOOSE m \in {total(i) : i \in 1..NumStudents} :
                        \A i \in 1..NumStudents : total(i) >= m
    IN  IF max_skill > min_skill
        THEN [num |-> 10 * (total(student) - min_skill),
              den |-> max_skill - min_skill]
        ELSE [num |-> 5, den |-> 1]

(* Line 1365: the orders sort_values(ascending=False) can produce; the     *)
(* order of students with equal composite_skill is not specified.          *)
SortedOrders ==
    {order \in [1..NumStudents -> 1..NumStudents] :
        /\ \A i \in 1..NumStudents : \E k \in 1..NumStudents : order[k] = i
        /\ \A k \in 1..(NumStudents - 1) :
            ~RatioLess(CompositeSkill(order[k]),
                       CompositeSkill(order[k + 1]))}

(* Lines 1400-1405; group_idx counts from 0.                               *)
SkillLevel(group_idx) ==
    IF group_idx < NumGroups \div 3 THEN "Advanced"
    ELSE IF group_idx < (2 * NumGroups) \div 3 THEN "Intermediate"
    ELSE "Beginner"

(* Line 1378.                                                              *)
GroupSize(group_idx) ==
    (NumStudents \div NumGroups)
        + (IF group_idx < NumStudents % NumGroups THEN 1 ELSE 0)

(* sorted_students.iloc[start_idx:end_idx], as student ids.                *)
GroupStudents(order, start_idx, end_idx) ==
    SubSeq(order, start_idx + 1, Min(end_idx, NumStudents))

RECURSIVE GroupInfo(_, _, _)
(* The dictionaries lines 1376-1420 append to group_info from group_idx    *)
(* on.                                                                     *)
GroupInfo(order, group_idx, start_idx) ==
    IF group_idx >= NumGroups THEN <<>>
    ELSE LET end_idx == start_idx + GroupSize(group_idx)
         IN  IF start_idx < NumStudents
             THEN <<[group_id |-> group_idx + 1,
                     skill_level |-> SkillLevel(group_idx),
                     size |-> Len(GroupStudents(order, start_idx, end_idx))]>>
                  \o GroupInfo(order, group_idx + 1, end_idx)
             ELSE GroupInfo(order, group_idx + 1, start_idx)

RECURSIVE GroupAssignments(_, _, _)
(* The dictionaries lines 1423-1460 append to group_assignments from       *)
(* group_idx on; composite_skill in hundredths.                            *)
GroupAssignments(order, group_idx, start_idx) ==
    IF group_idx >= NumGroups THEN <<>>
    ELSE LET end_idx == start_idx + GroupSize(group_idx)
             group_students == GroupStudents(order, start_idx, end_idx)
         IN  IF start_idx < NumStudents
             THEN [k \in 1..Len(group_students) |->
                    [student_id |-> group_students[k],
                     group_id |-> group_idx + 1,
                     composite_skill |->
                        PyRound(100 * CompositeSkill(group_students[k]).num,
                                CompositeSkill(group_students[k]).den)]]
                  \o GroupAssignments(order, group_idx + 1, end_idx)
             ELSE GroupAssignments(order, group_idx + 1, start_idx)

(* The call returns its first argument: without student rows (line 1336),  *)
(* and after the ZeroDivisionError of line 1368 for num_groups = 0         *)
(* (lines 1488-1491).                                                      *)
ReturnsOriginal == NumStudents = 0 \/ NumGroups = 0

(* One call of add_student_skill_based_assignments.                        *)
AddStudentSkillBasedAssignments ==
    /\ grouping = None
    /\ IF ReturnsOriginal
       THEN grouping' = <<[original |-> optimization_result]>>
       ELSE \E order \in SortedOrders :
                grouping' =
                    <<[skill_based_distribution |-> GroupInfo(order, 0, 0),
                       student_group_assignments |->
                            GroupAssignments(order, 0, 0),
                       num_skill_groups |-> NumGroups]>>
    /\ UNCHANGED <<input_data, pc, err, total_teachers, teachers_per_subject,
                   ideal_subject_ratios, students_per_subject,
                   subject_allocation, teachers_per_classroom_subject,
                   students_per_classroom_subject, classroom_allocation,
                   teacher_allocation, overall_ratio, recommendations,
                   previous_result,
                   page, optimization_result, script,
                   student_df, custom_groups,
                   files, clock, latest, scenarios>>

(* The calls: up to MaxStudentRows students, custom_groups None (0) or a   *)
(* number, and no optimization result or one with 0..MaxClassrooms         *)
(* classrooms.                                                             *)
InitSkillGroups ==
    /\ EngineIdle
    /\ page = "results"
    /\ script = "render"
    /\ \E n \in 0..MaxStudentRows :
        student_df \in [1..n -> [1..NumSkillColumns -> SkillChoices]]
    /\ custom_groups \in 0..(MaxStudentRows + 1)
    /\ optimization_result \in
        {None} \cup
        {<<[classroom_allocation |-> [j \in 1..c |-> [classroom_id |-> j]]]>> :
            c \in 0..MaxClassrooms}
    /\ grouping = None
    /\ InitScenariosDir

NextSkillGroups == AddStudentSkillBasedAssignments

SpecSkillGroups == InitSkillGroups /\ [][NextSkillGroups]_vars

----------------------------------------------------------------------------
(* The scenarios directory, save_scenario and load_scenario of             *)
(* src/data_management.py.  A name is the sequence of its characters; a    *)
(* file name is the pair of safe_name and timestamp, which the f-string of *)
(* line 26 joins (the timestamp has 14 digits, so the pair can be read     *)
(* back from the string); files maps the names of the files to their JSON  *)
(* content.  clock is the time in seconds, the resolution of line 25, and  *)
(* never runs backward.  latest records, per name, the data of the         *)
(* caller's last save; scenarios is what load_scenario returned since the  *)
(* last save, wrapped in a sequence, or None.                              *)

NameChoices ==
    {<<"a", " ", "b">>, <<"a", "_", "b">>, <<"a", "/", "b">>, <<"c">>}
DataChoices == {1, 2}

(* Line 22.                                                                *)
SafeName(name) ==
    [k \in DOMAIN name |->
        IF name[k] \in {" ", "/", "\\"} THEN "_" ELSE name[k]]

(* Lines 25-26.                                                            *)
Filename(name) == <<SafeName(name), clock>>

(* save_scenario(name, data): open(..., 'w') creates the file or replaces  *)
(* its content.                                                            *)
SaveScenario ==
    /\ \E name \in NameChoices, data \in DataChoices :
        /\ files' =
            [f \in DOMAIN files \cup {Filename(name)} |->
                IF f = Filename(name)
                THEN [name |-> name, data |-> data, timestamp |-> clock]
                ELSE files[f]]
        /\ latest' =
            [n \in DOMAIN latest \cup {name} |->
                IF n = name THEN data ELSE latest[n]]
    /\ scenarios' = None
    /\ UNCHANGED <<input_data, pc, err, total_teachers, teachers_per_subject,
                   ideal_subject_ratios, students_per_subject,
                   subject_allocation, teachers_per_classroom_subject,
                   students_per_classroom_subject, classroom_allocation,
                   teacher_allocation, overall_ratio, recommendations,
                   previous_result,
                   page, optimization_result, script,
                   student_df, custom_groups, grouping, clock>>

(* Lines 52-73: the files grouped by their 'name' entry, and for each name *)
(* the data of the file with the greatest timestamp.                       *)
LoadedScenarios ==
    [name \in {files[f].name : f \in DOMAIN files} |->
        LET versions == {f \in DOMAIN files : files[f].name = name}
            newest == CHOOSE f \in versions :
                        \A g \in versions :
                            files[g].timestamp <= files[f].timestamp
        IN  files[newest].data]

(* load_scenario().                                                        *)
LoadScenario ==
    /\ scenarios' = <<LoadedScenarios>>
    /\ UNCHANGED <<input_data, pc, err, total_teachers, teachers_per_subject,
                   ideal_subject_ratios, students_per_subject,
                   subject_allocation, teachers_per_classroom_subject,
                   students_per_classroom_subject, classroom_allocation,
                   teacher_allocation, overall_ratio, recommendations,
                   previous_result,
                   page, optimization_result, script,
                   student_df, custom_groups, grouping,
                   files, clock, latest>>

(* A second passes.                                                        *)
Tick ==
    /\ clock < MaxClock
    /\ clock' = clock + 1
    /\ UNCHANGED <<input_data, pc, err, total_teachers, teachers_per_subject,
                   ideal_subject_ratios, students_per_subject,
                   subject_allocation, teachers_per_classroom_subject,
                   students_per_classroom_subject, classroom_allocation,
                   teacher_allocation, overall_ratio, recommendations,
                   previous_result,
                   page, optimization_result, script,
                   student_df, custom_groups, grouping,
                   files, latest, scenarios>>

InitScenarios ==
    /\ EngineIdle
    /\ InitSurroundings

NextScenarios ==
    \/ SaveScenario
    \/ LoadScenario
    \/ Tick

SpecScenarios == InitScenarios /\ [][NextScenarios]_vars

----------------------------------------------------------------------------
(* Quantities of a result.                                                 *)

Returned == pc = "returned"

TeachersAllocated ==
    SumOver([s \in Subjects |-> subject_allocation[s].teachers_allocated],
            Subjects)

StudentsAllocated ==
    SumOver([s \in Subjects |-> subject_allocation[s].students_allocated],
            Subjects)

(* The sum of the classrooms' students_assigned, in Scale units.           *)
StudentsAssigned ==
    SumSeq([j \in Classrooms |-> classroom_allocation[j].students_assigned])

PercentageTotal == SumOver(input_data.teacher_distribution, Subjects)

MissingDifficulty ==
    \E s \in Subjects : s \notin DOMAIN input_data.subject_difficulties

----------------------------------------------------------------------------
(* The claims.                                                             *)

(* C1: for every valid request (percentages summing to 100) the            *)
(* teachers_allocated of the returned subject_allocation sum to            *)
(* total_teachers.                                                         *)
C1_TeachersSumToTotal ==
    Returned => TeachersAllocated = input_data.total_teachers

(* C2: for every valid request the students_allocated of the returned      *)
(* subject_allocation sum to total_students.                               *)
C2_StudentsSumToTotal ==
    Returned => StudentsAllocated = input_data.total_students

(* C3: the classrooms' students_assigned sum to the subjects'              *)
(* students_allocated: spreading neither creates nor loses students.       *)
C3_SpreadConservesStudents ==
    Returned => StudentsAssigned = StudentsAllocated * Scale

(* C4: the call raises no exception for a request within the type and      *)
(* range constraints of the data model.                                    *)
C4_NoException == pc # "raised"

(* C5: when every subject with students has teachers, teacher_allocation   *)
(* holds exactly total_teachers records.                                   *)
C5_OneRecordPerTeacher ==
    (/\ Returned
     /\ \A s \in Subjects :
            subject_allocation[s].students_allocated > 0
                => subject_allocation[s].teachers_allocated > 0)
        => Len(teacher_allocation) = input_data.total_teachers

(* C6: when the classrooms' total capacity is below the number of students *)
(* to place, the call still returns and every student is placed.           *)
C6_OverflowPlacesEveryStudent ==
    (/\ pc \in {"returned", "raised"}
     /\ students_per_subject # <<>>
     /\ input_data.num_classrooms * MaxSize
            < SumOver(students_per_subject, Subjects) * Scale)
        => /\ Returned
           /\ StudentsAssigned = SumOver(students_per_subject, Subjects) * Scale

(* C7: when the percentages passed to the engine do not sum to 100, the    *)
(* teachers_allocated still sum to total_teachers.                         *)
C7_UnnormalizedSumToTotal ==
    (Returned /\ PercentageTotal # 100)
        => TeachersAllocated = input_data.total_teachers

(* C8: with one teacher, one classroom and one subject, the subject gets   *)
(* all total_students, the one teacher record carries them all, and the    *)
(* subject's ratio is total_students / 1.                                  *)
C8_SingleTeacherGetsAll ==
    (/\ Returned
     /\ input_data.total_teachers = 1
     /\ input_data.num_classrooms = 1
     /\ Len(input_data.subject_names) = 1)
        => /\ subject_allocation[1].students_allocated
                = input_data.total_students
           /\ Len(teacher_allocation) = 1
           /\ teacher_allocation[1].students_assigned
                = input_data.total_students
           /\ subject_allocation[1].ratio
                = [num |-> input_data.total_students, den |-> 1]

(* C9: in the returned subject_allocation every subject's                  *)
(* teachers_allocated and students_allocated are non-negative.             *)
C9_AllocationsNonNegative ==
    Returned =>
        \A s \in Subjects :
            /\ subject_allocation[s].teachers_allocated >= 0
            /\ subject_allocation[s].students_allocated >= 0

(* C10: a request in which a subject has no entry in subject_difficulties  *)
(* completes without raising.                                              *)
C10_MissingDifficultyCompletes ==
    MissingDifficulty => pc # "raised"


(* C11: for a request with total_teachers = 0 or num_classrooms = 0 the    *)
(* engine never performs a division by zero: it rejects the request or     *)
(* applies a default.                                                      *)
C11_NoDivisionByZero ==
    (input_data.total_teachers = 0 \/ input_data.num_classrooms = 0)
        => err # "ZeroDivisionError"

C13_RequestUnchanged ==
    [][/\ input_data' = input_data
       /\ pc' = "start" =>
            /\ teachers_per_subject' = <<>>
            /\ ideal_subject_ratios' = <<>>
            /\ students_per_subject' = <<>>
            /\ subject_allocation' = <<>>
            /\ teachers_per_classroom_subject' = <<>>
            /\ students_per_classroom_subject' = <<>>
            /\ classroom_allocation' = <<>>
            /\ teacher_allocation' = <<>>
            /\ recommendations' = <<>>]_vars

(* A second call has started after a first call that returned records.     *)
C13_SecondCallStarted ==
    /\ previous_result # <<>>
    /\ "teacher_allocation" \in DOMAIN previous_result
    /\ previous_result.teacher_allocation # <<>>
    /\ pc = "teachers"

(* The request is the scenario: 500 students, 50 teachers, 20 classrooms,  *)
(* Math (7), Science (6), History (5), English (4), Art (3), 20% each.     *)
IsScenario ==
    /\ input_data.total_students = ScenarioStudents
    /\ input_data.total_teachers = ScenarioTeachers
    /\ input_data.num_classrooms = ScenarioClassrooms
    /\ input_data.subject_difficulties = <<7, 6, 5, 4, 3>>
    /\ input_data.teacher_distribution = <<20, 20, 20, 20, 20>>

(* C14: for the scenario request teachers_allocated sums to 50 with every  *)
(* subject at 10 plus or minus 1, students_allocated sums to 500, and      *)
(* Math's ratio is lower than Art's.                                       *)
C14_ScenarioAllocation ==
    (Returned /\ IsScenario) =>
        /\ TeachersAllocated = ScenarioTeachers
        /\ \A s \in Subjects :
                subject_allocation[s].teachers_allocated \in 9..11
        /\ StudentsAllocated = ScenarioStudents
        /\ RatioLess(subject_allocation[1].ratio, subject_allocation[5].ratio)

(* The scenario has returned, with Math at 60 students for 10 teachers     *)
(* and Art at 140 for 10.                                                  *)
C14_ScenarioReturned ==
    /\ Returned
    /\ IsScenario
    /\ subject_allocation[1].ratio = [num |-> 60, den |-> 10]
    /\ subject_allocation[5].ratio = [num |-> 140, den |-> 10]

C16_FactorsClamped ==
    /\ \A s \in DOMAIN input_data.subject_difficulties :
            /\ DemandFactor5(input_data.subject_difficulties[s]) \in 3..7
            /\ AdjustFactor10(input_data.subject_difficulties[s]) \in 7..13
    /\ \A s \in DOMAIN ideal_subject_ratios :
            LET ideal == ideal_subject_ratios[s]
                students == input_data.total_students
                teachers == input_data.total_teachers
            IN  /\ 3 * students * ideal.den <= 5 * ideal.num * teachers
                /\ 5 * ideal.num * teachers <= 7 * students * ideal.den

(* The ideal ratios are computed for a request with a difficulty above 10, *)
(* whose ratio is 0.6 times the average, and one below 1, whose ratio is   *)
(* 1.4 times the average.                                                  *)
C16_OutOfRangeDifficulties ==
    /\ ideal_subject_ratios # <<>>
    /\ \E s \in DOMAIN ideal_subject_ratios :
            /\ input_data.subject_difficulties[s] > 10
            /\ ideal_subject_ratios[s]
                    = [num |-> 3 * input_data.total_students,
                       den |-> 5 * input_data.total_teachers]
    /\ \E s \in DOMAIN ideal_subject_ratios :
            /\ input_data.subject_difficulties[s] < 1
            /\ ideal_subject_ratios[s]
                    = [num |-> 7 * input_data.total_students,
                       den |-> 5 * input_data.total_teachers]

(* C17: for every subject with at least one teacher the per-classroom     *)
(* teacher counts sum to the subject's teachers_allocated, for every       *)
(* num_classrooms >= 1, so the classrooms' teachers_assigned sum to the    *)
(* total of teachers_allocated.                                            *)
C17_TeacherSpreadSumsToSubject ==
    /\ pc \in {"teacher_spread", "student_spread", "records", "ratio",
               "returned"} =>
            \A s \in Subjects :
                teachers_per_subject[s] >= 1 =>
                    /\ s \in DOMAIN teachers_per_classroom_subject
                    /\ SumSeq(teachers_per_classroom_subject[s])
                            = teachers_per_subject[s]
    /\ Returned =>
            SumSeq([j \in Classrooms |->
                        classroom_allocation[j].teachers_assigned])
                = TeachersAllocated

(* C18: every classroom's students_assigned and every per-(classroom,      *)
(* subject) student count is a non-negative integer, also when the         *)
(* capacity ceiling is not a whole number.                                 *)
C18_StudentCountsAreIntegers ==
    Returned =>
        /\ \A j \in Classrooms :
                /\ classroom_allocation[j].students_assigned >= 0
                /\ classroom_allocation[j].students_assigned % Scale = 0
        /\ \A s \in DOMAIN students_per_classroom_subject :
                \A j \in Classrooms :
                    /\ students_per_classroom_subject[s][j] >= 0
                    /\ students_per_classroom_subject[s][j] % Scale = 0

(* The capacity ceiling min(1.2 * (total_students / num_classrooms),       *)
(* max_class_size), in Scale units.                                        *)
CapacityCeiling ==
    Min(6 * input_data.total_students, input_data.max_class_size * Scale)

C20_CapHoldsAfterReconciliation ==
    Returned =>
        \A s \in Subjects :
            10 * subject_allocation[s].students_allocated
                <= 4 * input_data.total_students

(* The order in which the classrooms are due an extra teacher, 1-based:    *)
(* the interior classrooms, then the first, then the last, when            *)
(* num_classrooms > 3; the classrooms in their own order otherwise.        *)
InteriorFirstOrder ==
    LET n == input_data.num_classrooms
    IN  IF n > 3
        THEN [k \in 1..n |-> IF k <= n - 2 THEN k + 1
                             ELSE IF k = n - 1 THEN 1 ELSE n]
        ELSE [k \in 1..n |-> k]

(* C21: with r = count mod num_classrooms, the r extra teachers of a       *)
(* subject go one each to the first r classrooms of the order interior     *)
(* classrooms, first classroom, last classroom when num_classrooms > 3,    *)
(* and to the first r classrooms when num_classrooms <= 3.                 *)
C21_ExtrasFollowInteriorOrder ==
    pc \in {"teacher_spread", "student_spread", "records", "ratio",
            "returned"} =>
        \A s \in DOMAIN teachers_per_classroom_subject :
            LET count == teachers_per_subject[s]
                base == count \div input_data.num_classrooms
                r == count % input_data.num_classrooms
            IN  \A j \in Classrooms :
                    teachers_per_classroom_subject[s][j]
                        = IF \E k \in 1..r : InteriorFirstOrder[k] = j
                          THEN base + 1 ELSE base

(* The pre-adjustment share of the teacher of record k: with S students    *)
(* and T teachers in the record's (classroom, subject) cell, S div T, plus *)
(* 1 for the first S mod T teachers of the cell.                           *)
TeacherShare(k) ==
    LET rec == teacher_allocation[k]
        T == teachers_per_classroom_subject[rec.subject][rec.classroom]
        S == students_per_classroom_subject[rec.subject][rec.classroom]
        t_idx == Cardinality({i \in 1..(k - 1) :
                    /\ teacher_allocation[i].subject = rec.subject
                    /\ teacher_allocation[i].classroom = rec.classroom})
    IN  (S \div (Scale * T))
            + (IF t_idx * Scale < S % (Scale * T) THEN 1 ELSE 0)

(* C22: every teacher record has students_assigned >= 1, and its           *)
(* students_assigned differs by at most 2 from the teacher's               *)
(* pre-adjustment share of its (classroom, subject) cell.                  *)
C22_TeacherRecordWithinTwo ==
    Returned =>
        \A k \in 1..Len(teacher_allocation) :
            /\ teacher_allocation[k].students_assigned >= 1
            /\ teacher_allocation[k].students_assigned <= TeacherShare(k) + 2
            /\ teacher_allocation[k].students_assigned >= TeacherShare(k) - 2

(* A call has returned a record cut to its share plus 2, where the         *)
(* difficulty factor alone gives more.                                     *)
C22_ClampedRecordReturned ==
    /\ Returned
    /\ \E k \in 1..Len(teacher_allocation) :
            /\ teacher_allocation[k].students_assigned = TeacherShare(k) + 2
            /\ PyRound(TeacherShare(k)
                        * AdjustFactor10(DifficultyOrDefault(
                                teacher_allocation[k].subject)), 10)
                    > TeacherShare(k) + 2

(* C23: of two subjects of one result that both have teachers, the one    *)
(* with the strictly higher difficulty has a ratio no greater than the     *)
(* other's.                                                                *)
C23_HarderSubjectLowerRatio ==
    Returned =>
        \A s, u \in Subjects :
            (/\ subject_allocation[s].teachers_allocated > 0
             /\ subject_allocation[u].teachers_allocated > 0
             /\ input_data.subject_difficulties[s]
                    > input_data.subject_difficulties[u])
                => ~RatioLess(subject_allocation[u].ratio,
                              subject_allocation[s].ratio)

(* a = b for ratios with positive denominators.                            *)
RatioEq(a, b) == a.num * b.den = b.num * a.den

(* 0.8 * ideal_ratio <= overall <= 1.2 * ideal_ratio                       *)
InBand(overall) ==
    /\ 4 * input_data.ideal_ratio * overall.den <= 5 * overall.num
    /\ 5 * overall.num <= 6 * input_data.ideal_ratio * overall.den

(* result is overall if overall is in the band, and                        *)
(* (overall + ideal_ratio) / 2 otherwise.                                  *)
IsCorrectionOf(result, overall) ==
    IF InBand(overall)
    THEN RatioEq(result, overall)
    ELSE 2 * result.num * overall.den
            = (overall.num + input_data.ideal_ratio * overall.den)
                * result.den

(* C24: with overall = base_ratio * experience_factor, the returned        *)
(* optimal_ratio is overall when overall is within 20% of ideal_ratio and  *)
(* exactly (overall + ideal_ratio) / 2 otherwise.                          *)
C24_SingleCorrectionStep ==
    Returned => IsCorrectionOf(overall_ratio, BaseOverallRatio)

(* A call has returned a corrected ratio that is still outside the band.   *)
C24_CorrectedStillOutside ==
    /\ Returned
    /\ ~InBand(BaseOverallRatio)
    /\ ~InBand(overall_ratio)

(* C25: when the difficulty-weighted teacher total is 0, the ratio before  *)
(* the correction is total_students / total_teachers * 0.9 times the       *)
(* experience factor (0.9 if prioritize_experience, else 1.0).             *)
C25_ExperienceFactorInFallback ==
    (Returned /\ WeightedTeachers100 = 0) =>
        IsCorrectionOf(overall_ratio,
            [num |-> 9 * input_data.total_students
                        * (IF input_data.prioritize_experience
                           THEN 9 ELSE 10),
             den |-> 100 * input_data.total_teachers])

(* The titles of the five recommendations, in the order of the spec:      *)
(* overall ratio, subject adjustments, classroom balance, workload,        *)
(* long-term planning.                                                     *)
FixedOrder ==
    <<"Use the Best Student-Teacher Ratio",
      "Adjust Each Subject Differently",
      "Balance Your Classrooms",
      "Use Teachers More Efficiently",
      "Plan Staffing Based on Data">>

RankOf(title) == CHOOSE k \in 1..Len(FixedOrder) : FixedOrder[k] = title

(* C26: a returned recommendations list has between 2 and 5 entries; the   *)
(* overall-ratio entry is first and the long-term entry last; the entries  *)
(* follow the fixed order without repetition; every impact_score and       *)
(* ease_score is in 1..10.                                                 *)
C26_RecommendationsShape ==
    Returned =>
        LET n == Len(recommendations)
        IN  /\ n \in 2..5
            /\ recommendations[1].title = FixedOrder[1]
            /\ recommendations[n].title = FixedOrder[5]
            /\ \A k \in 1..n :
                /\ \E r \in 1..Len(FixedOrder) :
                        FixedOrder[r] = recommendations[k].title
                /\ recommendations[k].impact_score \in 1..10
                /\ recommendations[k].ease_score \in 1..10
            /\ \A k \in 1..(n - 1) :
                RankOf(recommendations[k].title)
                    < RankOf(recommendations[k + 1].title)

(* A call has returned all five recommendations.                           *)
C26_AllFiveReturned == Returned /\ Len(recommendations) = 5

(* The classroom ratios of the result, a classroom without teachers       *)
(* counting with ratio 0, and those that are greater than 0.               *)
ClassroomRatios ==
    {classroom_allocation[j].ratio : j \in DOMAIN classroom_allocation}

StaffedClassroomRatios == {r \in ClassroomRatios : r.num > 0}

(* The largest ratio of R exceeds the smallest by more than 3.             *)
SpreadExceedsThree(R) ==
    \E a \in R, b \in R :
        a.num * b.den - b.num * a.den > 3 * a.den * b.den

BalanceRecommended ==
    \E k \in 1..Len(recommendations) :
        recommendations[k].title = "Balance Your Classrooms"

(* C27, as stated: a result holds the classroom-balance recommendation     *)
(* exactly when the largest classroom ratio exceeds the smallest by more   *)
(* than 3, a classroom without teachers counting with ratio 0.             *)
C27_BalanceCountsEmptyClassrooms ==
    Returned => (BalanceRecommended <=> SpreadExceedsThree(ClassroomRatios))

(* C27, amended: a result holds the classroom-balance recommendation       *)
(* exactly when, among the classrooms whose ratio is greater than 0, the   *)
(* largest ratio exceeds the smallest by more than 3.                      *)
C27_BalanceOverStaffedClassrooms ==
    Returned =>
        (BalanceRecommended <=> SpreadExceedsThree(StaffedClassroomRatios))

(* A call has returned the classroom-balance recommendation for a result   *)
(* with a classroom without teachers.                                      *)
C27_BalanceWithEmptyClassroom ==
    /\ Returned
    /\ BalanceRecommended
    /\ \E r \in ClassroomRatios : r.num = 0

(* The pages that show a result.                                           *)
ResultPages == {"results", "recommendations", "reports"}

(* C29: in a UI session the page is results, recommendations or reports    *)
(* only if optimization_result is not None, and an optimization_result     *)
(* that is not None never becomes None again.                              *)
C29_ResultPagesNeedResult ==
    /\ [](page \in ResultPages => optimization_result # None)
    /\ [][optimization_result # None => optimization_result' # None]_vars

(* The session shows a result page after a run that succeeded was          *)
(* followed by a run that raised.                                          *)
C29_ResultPageAfterFailedRun ==
    /\ page \in ResultPages
    /\ optimization_result # None
    /\ script = "render"
    /\ pc = "raised"

(* The call has returned a grouping.                                      *)
Grouped ==
    /\ grouping # None
    /\ "num_skill_groups" \in DOMAIN grouping[1]

(* C28: a grouping of n students assigns every student to exactly one      *)
(* group; the groups are contiguous bands of the students in descending    *)
(* composite skill; with 1 <= g <= n requested groups there are g groups   *)
(* and group k has n \div g students, one more for the first n mod g       *)
(* groups; num_skill_groups is the number of groups produced, whatever g.  *)
C28_SkillGroupsPartition ==
    Grouped =>
        LET n == NumStudents
            g == NumGroups
            groups == grouping[1].skill_based_distribution
            assigned == grouping[1].student_group_assignments
        IN  /\ \A i \in 1..n :
                Cardinality({k \in DOMAIN assigned :
                                assigned[k].student_id = i}) = 1
            /\ \A a \in DOMAIN assigned, b \in DOMAIN assigned :
                a < b =>
                    /\ assigned[a].group_id <= assigned[b].group_id
                    /\ ~RatioLess(CompositeSkill(assigned[a].student_id),
                                  CompositeSkill(assigned[b].student_id))
            /\ \A k \in DOMAIN groups :
                groups[k].size =
                    Cardinality({a \in DOMAIN assigned :
                                    assigned[a].group_id = groups[k].group_id})
            /\ g \in 1..n =>
                /\ Len(groups) = g
                /\ \A k \in 1..g :
                    groups[k].size = (n \div g) + (IF k <= n % g THEN 1 ELSE 0)
            /\ grouping[1].num_skill_groups = Len(groups)

(* C30: what load_scenario returns has an entry for every name that was    *)
(* saved, and the entry is the data of the last save under that name.      *)
C30_LoadReturnsLatestSaves ==
    scenarios # None =>
        \A name \in DOMAIN latest :
            /\ name \in DOMAIN scenarios[1]
            /\ scenarios[1][name] = latest[name]

=============================================================================
